---- MODULE Spec2Model ----
(***************************************************************************)
(* Model of the medhack repository's decision logic:                       *)
(*   - src/pneumonia-api/main.py : the FastAPI inference service           *)
(*     (load_model, startup_event, preprocess_image, get_severity,         *)
(*      get_recommendations, predict, health_check);                       *)
(*   - src/predict.py            : the command-line prediction script.     *)
(*                                                                         *)
(* A probability is the rational  num / Den  with num \in 0..Den; the      *)
(* float comparisons  p > 0.9, p > 0.8, p > 0.5  of the source are done    *)
(* by cross-multiplication, so they are exact on the grid.                 *)
(*                                                                         *)
(* The handlers of main.py are "async def" bodies without any await, so    *)
(* each runs to completion on the event loop: one action per handler.      *)
(***************************************************************************)
EXTENDS Integers, Sequences, FiniteSets, TLC

VARIABLES
    pc,          \* service lifecycle: "booting" (module imported) or "serving"
    model,       \* main.py global `model`: "None" or "Loaded"
    lastResp,    \* the HTTP response of the most recent POST /predict
    sample,      \* one of the 200 responses of /predict so far (NoResp: none yet)
    healthResp,  \* the body of the most recent GET /health
    fn,          \* one call of a pure function of main.py: arguments and result
    cli          \* one run of predict.py: environment, position, stdout, exit code

vars == <<pc, model, lastResp, sample, healthResp, fn, cli>>

\* Probabilities are k / Den, k \in 0..Den.
Den == 20

Probs == 0..Den

\* p > a/10 for p = num/Den, as the source's float comparison `confidence > 0.a`.
GreaterThanTenths(num, a) == num * 10 > a * Den

----------------------------------------------------------------------------
(* main.py: get_severity                                                    *)

SevereThreshold == 9
ModerateThreshold == 8
MildThreshold == 5

\* the 0.8 test placed before the 0.9 test
get_severity_WrongOrder(confidence) ==
    IF GreaterThanTenths(confidence, ModerateThreshold) THEN "Moderate"
    ELSE IF GreaterThanTenths(confidence, SevereThreshold) THEN "Severe"
    ELSE IF GreaterThanTenths(confidence, MildThreshold) THEN "Mild"
    ELSE "None"

\* "Mild" only above 0.6, out of step with the 0.5 of get_recommendations
get_severity_MildAbove06(confidence) ==
    IF GreaterThanTenths(confidence, SevereThreshold) THEN "Severe"
    ELSE IF GreaterThanTenths(confidence, ModerateThreshold) THEN "Moderate"
    ELSE IF GreaterThanTenths(confidence, 6) THEN "Mild"
    ELSE "None"

get_severity(confidence) ==
    IF GreaterThanTenths(confidence, SevereThreshold) THEN "Severe"
    ELSE IF GreaterThanTenths(confidence, ModerateThreshold) THEN "Moderate"
    ELSE IF GreaterThanTenths(confidence, MildThreshold) THEN "Mild"
    ELSE "None"

----------------------------------------------------------------------------
(* main.py: get_recommendations                                             *)

base_recommendations ==
    << "Consult with a healthcare provider",
       "Monitor breathing and oxygen levels",
       "Rest and maintain good hydration" >>

SevereRecommendations ==
    << "SEEK IMMEDIATE EMERGENCY CARE",   \* the source prefixes a warning sign
       "High risk - immediate medical attention required",
       "Prepare for possible hospitalization",
       "Monitor oxygen saturation closely" >> \o base_recommendations

ModerateRecommendations ==
    << "Seek urgent medical attention",
       "Begin prescribed treatments promptly",
       "Schedule follow-up chest X-rays" >> \o base_recommendations

MildRecommendations ==
    << "Schedule medical evaluation" >> \o base_recommendations \o
    << "Follow up with chest X-rays as advised",
       "Complete prescribed medications if given" >>

NormalRecommendations ==
    << "Continue normal health monitoring",
       "Maintain good respiratory hygiene",
       "Stay current with vaccinations",
       "Follow up if new symptoms develop" >>

\* the severity tested before the confidence
get_recommendations_SeverityFirst(confidence, severity) ==
    IF severity = "Severe" THEN SevereRecommendations
    ELSE IF severity = "Moderate" THEN ModerateRecommendations
    ELSE IF GreaterThanTenths(confidence, MildThreshold) THEN MildRecommendations
    ELSE NormalRecommendations

\* the answer made to depend on the request before: the normal list after a
\* request that failed
get_recommendations_AfterFailure(confidence, severity) ==
    IF lastResp.status = 500 THEN NormalRecommendations
    ELSE IF GreaterThanTenths(confidence, MildThreshold)
    THEN IF severity = "Severe" THEN SevereRecommendations
         ELSE IF severity = "Moderate" THEN ModerateRecommendations
         ELSE MildRecommendations
    ELSE NormalRecommendations

get_recommendations(confidence, severity) ==
    IF GreaterThanTenths(confidence, MildThreshold)
    THEN IF severity = "Severe" THEN SevereRecommendations
         ELSE IF severity = "Moderate" THEN ModerateRecommendations
         ELSE MildRecommendations
    ELSE NormalRecommendations

----------------------------------------------------------------------------
(* main.py: preprocess_image                                                *)
(*                                                                          *)
(* image_data is modelled by the result of image_data.split('base64,'): a  *)
(* non-empty sequence of pieces, so 'base64,' occurs in the string iff the *)
(* sequence has more than one piece.  A piece is a record:                  *)
(*   kind "image"    : base64 text of an encoded raster image of size       *)
(*                     w x h in PIL mode `mode`, whose samples lie in       *)
(*                     lo..hi;                                              *)
(*   kind "notimage" : well-formed base64 of bytes that are no image;       *)
(*   kind "badpad"   : text base64.b64decode rejects (incorrect padding);   *)
(*   kind "header"   : the text of a data-URL header ("data:image/png;"),   *)
(*                     which b64decode rejects as well.                     *)

TargetSize == 224
MaxSample == 255

\* Number of bands of a PIL mode, as np.array(image) lays them out.
Bands(mode) ==
    CASE mode = "RGB"  -> 3
      [] mode = "RGBA" -> 4
      [] mode = "LA"   -> 2
      [] mode = "L"    -> 1

\* index 0 instead of index 1 of the split
StripPrefix_First(image_data) == image_data[1]

\* line 48-49: keep the piece after the first 'base64,' when there is one
StripPrefix(image_data) ==
    IF Len(image_data) > 1 THEN image_data[2] ELSE image_data[1]

\* line 52, base64.b64decode: "" when it returns bytes, else the exception
B64DecodeError(piece) ==
    IF piece.kind \in {"badpad", "header"} THEN "binascii.Error" ELSE ""

\* line 52, Image.open: "" when the bytes are an image, else the exception
ImageOpenError(piece) ==
    IF piece.kind = "image" THEN "" ELSE "UnidentifiedImageError"

\* line 55-56: convert to RGB unless the image is RGB already
ConvertRGB(image) ==
    IF image.mode # "RGB" THEN [image EXCEPT !.mode = "RGB"] ELSE image

\* line 59: the output is 224 x 224; resampling may overshoot the range of a
\* non-constant image, and clips to the 8-bit range
Resize(image) ==
    [image EXCEPT !.w = TargetSize, !.h = TargetSize,
                  !.lo = IF image.lo = image.hi THEN image.lo ELSE 0,
                  !.hi = IF image.lo = image.hi THEN image.hi ELSE MaxSample]

\* line 62: np.array(image) has shape (h, w) or (h, w, bands); every value is
\* divided by 255.0.  The values of the array lie in lo/den .. hi/den.
ToArray(image) ==
    [shape |-> IF Bands(image.mode) = 1 THEN <<image.h, image.w>>
               ELSE <<image.h, image.w, Bands(image.mode)>>,
     lo |-> image.lo, hi |-> image.hi, den |-> MaxSample]

\* line 65: np.expand_dims(img_array, axis=0)
ExpandDims(arr) == [arr EXCEPT !.shape = <<1>> \o arr.shape]

NoArray == [shape |-> << >>, lo |-> 0, hi |-> 0, den |-> 1]

\* The whole function: exc = "" and the array on success, else the exception
\* raised; steps lists the operations entered, in order.
preprocess_image(image_data) ==
    LET piece == StripPrefix(image_data)
        s1    == <<"strip_prefix", "b64decode">>
    IN  IF B64DecodeError(piece) # ""
        THEN [exc |-> B64DecodeError(piece), steps |-> s1, array |-> NoArray]
        ELSE IF ImageOpenError(piece) # ""
        THEN [exc |-> ImageOpenError(piece), steps |-> s1 \o <<"open">>,
              array |-> NoArray]
        ELSE LET opened == [w |-> piece.w, h |-> piece.h, mode |-> piece.mode,
                            lo |-> piece.lo, hi |-> piece.hi]
                 s2 == s1 \o <<"open">> \o
                       (IF opened.mode # "RGB" THEN <<"convert">> ELSE << >>)
             IN  [exc |-> "",
                  steps |-> s2 \o <<"resize", "divide", "expand_dims">>,
                  array |-> ExpandDims(ToArray(Resize(ConvertRGB(opened))))]

----------------------------------------------------------------------------
(* main.py: load_model, startup_event                                       *)

\* load_model: `exists` is os.path.exists(model_path), `loadable` whether
\* tf.keras.models.load_model returns.  The global is assigned only when both
\* hold; otherwise the exception propagates and the global is untouched.
load_model(cur, exists, loadable) ==
    IF exists
    THEN IF loadable THEN [model |-> "Loaded", exc |-> ""]
                     ELSE [model |-> cur, exc |-> "keras load error"]
    ELSE [model |-> cur, exc |-> "Model file not found at pneumonia_detection_model.h5"]

NoResp == [status |-> 0, detail |-> << >>, steps |-> << >>, num |-> 0,
           prediction |-> "", severity |-> "", lungOpacity |-> << >>,
           infiltrates |-> "", consolidation |-> "", recommendations |-> << >>]

NoHealth == [status |-> "", model_loaded |-> FALSE]

NoCall == [name |-> "", confidence |-> 0, confidence2 |-> 0, severity |-> "",
           image_data |-> << >>, done |-> FALSE,
           ret_severity |-> "", ret_severity2 |-> "", ret_recommendations |-> << >>,
           ret_array |-> [exc |-> "", steps |-> << >>, array |-> NoArray]]

NoRun == [at |-> "off", modelFile |-> "", inputFile |-> "", scoring |-> "",
          p |-> 0, exc |-> "", probability |-> 0, prediction |-> FALSE,
          stdout |-> << >>, exitcode |-> -1]

\* startup_event: one load attempt, any exception is printed and dropped
startup_event(exists, loadable) ==
    /\ pc = "booting"
    /\ model' = load_model(model, exists, loadable).model
    /\ pc' = "serving"
    /\ UNCHANGED <<lastResp, sample, healthResp, fn, cli>>

----------------------------------------------------------------------------
(* main.py: predict, health_check                                           *)

\* f"{(p * 100):.1f}": p * 100 to one decimal place, as a count of tenths of
\* a percent, ties to even
FormatPercent(num) ==
    LET q == (1000 * num) \div Den
        r == (1000 * num) % Den
    IN  IF 2 * r < Den THEN q
        ELSE IF 2 * r > Den THEN q + 1
        ELSE IF q % 2 = 0 THEN q ELSE q + 1

\* >= 0.5 instead of > 0.5
IsPneumonia_AtLeastHalf(pneumonia_probability) ==
    pneumonia_probability * 10 >= MildThreshold * Den

\* line 137: is_pneumonia = pneumonia_probability > 0.5
IsPneumonia(pneumonia_probability) ==
    GreaterThanTenths(pneumonia_probability, MildThreshold)

\* the load attempted on every request
NeedsLoad_Always(m) == TRUE

\* line 119: `if not model:`
NeedsLoad(m) == m = "None"

\* raise HTTPException(status_code=500, detail=...)
Http500(detail, steps) ==
    [NoResp EXCEPT !.status = 500, !.detail = detail, !.steps = steps]

\* lines 134-156: the result dictionary built from the model's output
Http200(pneumonia_probability, steps) ==
    LET is_pneumonia == IsPneumonia(pneumonia_probability)
        severity     == get_severity(pneumonia_probability)
    IN  [status |-> 200, detail |-> << >>, steps |-> steps,
         num |-> pneumonia_probability,
         prediction |-> IF is_pneumonia THEN "Pneumonia" ELSE "Normal",
         severity |-> severity,
         lungOpacity |-> <<IF is_pneumonia THEN "Increased" ELSE "Normal",
                           FormatPercent(pneumonia_probability)>>,
         infiltrates |-> IF is_pneumonia THEN "Likely presence of infiltrates"
                         ELSE "No significant infiltrates detected",
         consolidation |-> IF is_pneumonia
                           THEN "Potential areas of consolidation observed"
                           ELSE "No consolidation observed",
         recommendations |-> get_recommendations(pneumonia_probability, severity)]

\* The response goes out.  `sample` remembers one 200 response: the first
\* one, and from then on either the one it holds or the new one, so that it
\* can be any earlier 200 response when a later one is sent.
Respond(resp) ==
    /\ lastResp' = resp
    /\ sample' \in IF resp.status # 200 THEN {sample}
                   ELSE IF sample = NoResp THEN {resp}
                   ELSE {sample, resp}

\* preprocess_image called outside the try block: its exception reaches the
\* framework, which answers 500 "Internal Server Error" without a detail
Process_PreprocessOutsideTry(image_data, steps) ==
    LET pre == preprocess_image(image_data)
    IN  IF pre.exc # ""
        THEN Respond(Http500(<< >>, steps \o <<"preprocess_image">>))
        ELSE \/ Respond(Http500(<<"inference error">>,
                        steps \o <<"preprocess_image", "model.predict">>))
             \/ \E p \in Probs :
                    Respond(Http200(p, steps \o <<"preprocess_image", "model.predict">>))

\* lines 125-159: the try block.  model.predict either raises or returns the
\* probability the (opaque) network computes for the tensor.
Process(image_data, steps) ==
    LET pre == preprocess_image(image_data)
    IN  IF pre.exc # ""
        THEN Respond(Http500(<<pre.exc>>, steps \o <<"preprocess_image">>))
        ELSE \/ Respond(Http500(<<"inference error">>,
                        steps \o <<"preprocess_image", "model.predict">>))
             \/ \E p \in Probs :
                    Respond(Http200(p, steps \o <<"preprocess_image", "model.predict">>))

\* POST /predict with body {"image": image_data}
predict(image_data) ==
    /\ pc = "serving"
    /\ \/ /\ NeedsLoad(model)
          /\ \E exists, loadable \in BOOLEAN :
                LET ld == load_model(model, exists, loadable)
                IN  /\ model' = ld.model
                    /\ IF ld.exc # ""
                       THEN Respond(Http500(<<"Model not loaded: ", ld.exc>>,
                                            <<"load_model">>))
                       ELSE Process(image_data, <<"load_model">>)
       \/ /\ ~NeedsLoad(model)
          /\ model' = model
          /\ Process(image_data, << >>)
    /\ UNCHANGED <<pc, healthResp, fn, cli>>

\* `model is None` instead of `model is not None`
health_check_Inverted ==
    /\ pc = "serving"
    /\ healthResp' = [status |-> "healthy", model_loaded |-> model = "None"]
    /\ UNCHANGED <<pc, model, lastResp, sample, fn, cli>>

\* GET /health
health_check ==
    /\ pc = "serving"
    /\ healthResp' = [status |-> "healthy", model_loaded |-> model # "None"]
    /\ UNCHANGED <<pc, model, lastResp, sample, fn, cli>>

\* The request bodies the service is driven with.
Image(w, h, mode, lo, hi) ==
    [kind |-> "image", w |-> w, h |-> h, mode |-> mode, lo |-> lo, hi |-> hi]

Junk(kind) == [kind |-> kind, w |-> 0, h |-> 0, mode |-> "", lo |-> 0, hi |-> 0]

Requests ==
    { <<Image(640, 480, "L", 0, 255)>>,
      <<Junk("header"), Image(224, 224, "RGB", 17, 17)>>,
      <<Junk("badpad")>>,
      <<Junk("header"), Junk("notimage")>> }

----------------------------------------------------------------------------
(* predict.py: the command-line script, one action per statement group.     *)
(* The environment of a run is fixed when it starts: the state of the two   *)
(* files, whether scoring raises, and the probability the pickled model     *)
(* gives for the input.                                                     *)

\* a bare `except:` catches SystemExit too
ExceptCatches_Bare(exc) == TRUE

\* `except Exception` does not catch SystemExit (a BaseException)
ExceptCatches(exc) == exc # "SystemExit"

\* an exception raised inside the try block
Raise(run, exc) ==
    IF ExceptCatches(exc) THEN [run EXCEPT !.at = "except", !.exc = exc]
    ELSE [run EXCEPT !.at = "exited", !.exitcode = 0]

ResultJson(probability, prediction) ==
    [kind |-> "result", probability |-> probability, prediction |-> prediction,
     error |-> ""]

ErrorJson(msg) ==
    [kind |-> "error", probability |-> 0, prediction |-> FALSE, error |-> msg]

\* lines 9-10: pickle.load of ensemble_model.pkl
cli_load_model ==
    /\ cli.at = "load_model"
    /\ cli' = IF cli.modelFile = "ok" THEN [cli EXCEPT !.at = "load_input"]
              ELSE IF cli.modelFile = "missing" THEN Raise(cli, "FileNotFoundError")
              ELSE Raise(cli, "UnpicklingError")
    /\ UNCHANGED <<pc, model, lastResp, sample, healthResp, fn>>

\* lines 13-14: json.load of temp_input.json
cli_load_input ==
    /\ cli.at = "load_input"
    /\ cli' = IF cli.inputFile = "ok" THEN [cli EXCEPT !.at = "score"]
              ELSE IF cli.inputFile = "missing" THEN Raise(cli, "FileNotFoundError")
              ELSE Raise(cli, "JSONDecodeError")
    /\ UNCHANGED <<pc, model, lastResp, sample, healthResp, fn>>

\* lines 17-21: reshape, predict_proba, threshold
cli_score ==
    /\ cli.at = "score"
    /\ cli' = IF cli.scoring = "ok"
              THEN [cli EXCEPT !.at = "print_result",
                               !.probability = cli.p,
                               !.prediction = GreaterThanTenths(cli.p, MildThreshold)]
              ELSE Raise(cli, "ValueError")
    /\ UNCHANGED <<pc, model, lastResp, sample, healthResp, fn>>

\* lines 24-29: print(json.dumps(result))
cli_print_result ==
    /\ cli.at = "print_result"
    /\ cli' = [cli EXCEPT !.at = "exit0",
                          !.stdout = Append(cli.stdout,
                                            ResultJson(cli.probability, cli.prediction))]
    /\ UNCHANGED <<pc, model, lastResp, sample, healthResp, fn>>

\* line 30: sys.exit(0) raises SystemExit inside the try block
cli_exit0 ==
    /\ cli.at = "exit0"
    /\ cli' = Raise(cli, "SystemExit")
    /\ UNCHANGED <<pc, model, lastResp, sample, healthResp, fn>>

\* lines 31-32: print(json.dumps({'error': str(e)}))
cli_except ==
    /\ cli.at = "except"
    /\ cli' = [cli EXCEPT !.at = "exit1",
                          !.stdout = Append(cli.stdout, ErrorJson(cli.exc))]
    /\ UNCHANGED <<pc, model, lastResp, sample, healthResp, fn>>

\* line 33: sys.exit(1)
cli_exit1 ==
    /\ cli.at = "exit1"
    /\ cli' = [cli EXCEPT !.at = "exited", !.exitcode = 1]
    /\ UNCHANGED <<pc, model, lastResp, sample, healthResp, fn>>

InitCli ==
    /\ pc = "booting"
    /\ model = "None"
    /\ lastResp = NoResp
    /\ sample = NoResp
    /\ healthResp = NoHealth
    /\ fn = NoCall
    /\ \E mf \in {"ok", "missing", "corrupt"}, jf \in {"ok", "missing", "badjson"},
          sc \in {"ok", "raises"}, p \in Probs :
          cli = [NoRun EXCEPT !.at = "load_model", !.modelFile = mf,
                              !.inputFile = jf, !.scoring = sc, !.p = p]

NextCli ==
    \/ cli_load_model
    \/ cli_load_input
    \/ cli_score
    \/ cli_print_result
    \/ cli_exit0
    \/ cli_except
    \/ cli_exit1

\* the interpreter keeps executing the script until it exits
SpecCli == InitCli /\ [][NextCli]_vars /\ WF_vars(NextCli)

----------------------------------------------------------------------------
(* Calls of the pure functions of main.py on arguments of their whole       *)
(* domain (the service only ever passes get_recommendations the severity    *)
(* get_severity computed).                                                  *)

MaxDim == 3

Severities == {"None", "Mild", "Moderate", "Severe"}

Sizes == (1..MaxDim) \cup {TargetSize, TargetSize + MaxDim}

Modes == {"RGB", "RGBA", "LA", "L"}

SampleRanges == {<<0, 0>>, <<0, MaxSample>>, <<MaxSample, MaxSample>>, <<17, 200>>}

Images ==
    { Image(w, h, m, r[1], r[2]) : w \in Sizes, h \in Sizes, m \in Modes,
                                   r \in SampleRanges }

Payloads == Images \cup {Junk("notimage"), Junk("badpad")}

\* bare base64, a data URL, and a string in which 'base64,' occurs twice
ImageData ==
    { <<x>> : x \in Payloads } \cup
    { <<Junk("header"), x>> : x \in Payloads } \cup
    { <<Junk("header"), Junk("header"), x>> : x \in Payloads }

\* get_severity applied to two probabilities
call_get_severity ==
    /\ fn.name = "get_severity" /\ ~fn.done
    /\ fn' = [fn EXCEPT !.done = TRUE,
                        !.ret_severity = get_severity(fn.confidence),
                        !.ret_severity2 = get_severity(fn.confidence2)]
    /\ UNCHANGED <<pc, model, lastResp, sample, healthResp, cli>>

call_get_recommendations ==
    /\ fn.name = "get_recommendations" /\ ~fn.done
    /\ fn' = [fn EXCEPT !.done = TRUE,
                        !.ret_recommendations =
                            get_recommendations(fn.confidence, fn.severity)]
    /\ UNCHANGED <<pc, model, lastResp, sample, healthResp, cli>>

call_preprocess_image ==
    /\ fn.name = "preprocess_image" /\ ~fn.done
    /\ fn' = [fn EXCEPT !.done = TRUE,
                        !.ret_array = preprocess_image(fn.image_data)]
    /\ UNCHANGED <<pc, model, lastResp, sample, healthResp, cli>>

InitFn ==
    /\ pc = "booting"
    /\ model = "None"
    /\ lastResp = NoResp
    /\ sample = NoResp
    /\ healthResp = NoHealth
    /\ cli = NoRun
    /\ \/ \E p \in Probs, q \in Probs :
             fn = [NoCall EXCEPT !.name = "get_severity",
                                 !.confidence = p, !.confidence2 = q]
       \/ \E p \in Probs, sev \in Severities :
             fn = [NoCall EXCEPT !.name = "get_recommendations",
                                 !.confidence = p, !.severity = sev]
       \/ \E d \in ImageData :
             fn = [NoCall EXCEPT !.name = "preprocess_image", !.image_data = d]

NextFn ==
    \/ call_get_severity
    \/ call_get_recommendations
    \/ call_preprocess_image

SpecFn == InitFn /\ [][NextFn]_vars

Init ==
    /\ pc = "booting"
    /\ model = "None"
    /\ lastResp = NoResp
    /\ sample = NoResp
    /\ healthResp = NoHealth
    /\ fn = NoCall
    /\ cli = NoRun

Next ==
    \/ \E exists, loadable \in BOOLEAN : startup_event(exists, loadable)
    \/ \E image_data \in Requests : predict(image_data)
    \/ health_check

Spec == Init /\ [][Next]_vars

----------------------------------------------------------------------------
(* Properties                                                               *)

\* p > 1/2 and p = 1/2 for p = num / Den
AboveHalf(num) == 2 * num > Den
AtHalf(num) == 2 * num = Den

\* C1: for every probability p in [0,1] the model returns, the 200 response
\* of /predict has prediction "Pneumonia" iff p > 0.5 and "Normal" otherwise
\* (p = 0.5 gives "Normal").
C1_PredictionIffAboveHalf ==
    \A r \in {lastResp, sample} :
        r.status = 200 =>
            /\ r.num \in Probs
            /\ r.prediction = "Pneumonia" <=> AboveHalf(r.num)
            /\ r.prediction = "Normal" <=> ~AboveHalf(r.num)

C1_Witness ==
    /\ lastResp.status = 200 /\ AtHalf(lastResp.num) /\ lastResp.prediction = "Normal"
    /\ sample.status = 200 /\ sample.prediction = "Pneumonia"

Rank(severity) ==
    CASE severity = "None" -> 0
      [] severity = "Mild" -> 1
      [] severity = "Moderate" -> 2
      [] severity = "Severe" -> 3

\* C2: get_severity is total on [0,1] with exclusive lower bounds tested in
\* the order 0.9, 0.8, 0.5: p > 0.9 "Severe", 0.8 < p <= 0.9 "Moderate",
\* 0.5 < p <= 0.8 "Mild", p <= 0.5 None; exactly one label per p, and the
\* label's rank never decreases as p increases.
C2_SeverityBands ==
    (fn.name = "get_severity" /\ fn.done) =>
        LET p == fn.confidence
            q == fn.confidence2
            s == fn.ret_severity
        IN  /\ s \in Severities
            /\ s = "Severe"   <=> 10 * p > 9 * Den
            /\ s = "Moderate" <=> (10 * p > 8 * Den /\ 10 * p <= 9 * Den)
            /\ s = "Mild"     <=> (10 * p > 5 * Den /\ 10 * p <= 8 * Den)
            /\ s = "None"     <=> 10 * p <= 5 * Den
            /\ p <= q => Rank(s) <= Rank(fn.ret_severity2)

C2_Witness ==
    /\ fn.name = "get_severity" /\ fn.done
    /\ 10 * fn.confidence = 9 * Den /\ fn.ret_severity = "Moderate"
    /\ 20 * fn.confidence2 = 19 * Den /\ fn.ret_severity2 = "Severe"

\* C3: get_recommendations(p, severity) is the fixed 4-item normal-monitoring
\* list whenever p <= 0.5, whatever the severity; for p > 0.5 it is 4 urgent
\* strings then the 3 base strings for "Severe" (7 items, the first the
\* emergency-care string), 3 urgent strings then the base strings for
\* "Moderate" (6 items), and otherwise 1 schedule-evaluation string, the base
\* strings, then 2 follow-up strings (6 items); the base strings are
\* contiguous and in their fixed order in every p > 0.5 case.
C3_Recommendations ==
    (fn.name = "get_recommendations" /\ fn.done) =>
        LET r    == fn.ret_recommendations
            base == << "Consult with a healthcare provider",
                       "Monitor breathing and oxygen levels",
                       "Rest and maintain good hydration" >>
        IN  IF ~AboveHalf(fn.confidence)
            THEN r = << "Continue normal health monitoring",
                        "Maintain good respiratory hygiene",
                        "Stay current with vaccinations",
                        "Follow up if new symptoms develop" >>
            ELSE IF fn.severity = "Severe"
            THEN /\ Len(r) = 7
                 /\ r[1] = "SEEK IMMEDIATE EMERGENCY CARE"
                 /\ SubSeq(r, 1, 4) = SubSeq(SevereRecommendations, 1, 4)
                 /\ SubSeq(r, 5, 7) = base
            ELSE IF fn.severity = "Moderate"
            THEN /\ Len(r) = 6
                 /\ r[1] = "Seek urgent medical attention"
                 /\ SubSeq(r, 1, 3) = SubSeq(ModerateRecommendations, 1, 3)
                 /\ SubSeq(r, 4, 6) = base
            ELSE /\ Len(r) = 6
                 /\ r[1] = "Schedule medical evaluation"
                 /\ SubSeq(r, 2, 4) = base
                 /\ SubSeq(r, 5, 6) = << "Follow up with chest X-rays as advised",
                                         "Complete prescribed medications if given" >>

C3_Witness ==
    /\ fn.name = "get_recommendations" /\ fn.done
    /\ AboveHalf(fn.confidence) /\ fn.severity = "Severe"
    /\ Len(fn.ret_recommendations) = 7

\* C4: GET /health always answers status "healthy" and model_loaded equal to
\* whether the model is loaded: false while no load has succeeded, true in
\* every /health after a /predict that returned 200; and /health leaves the
\* model as it is.
C4_Health ==
    /\ [](healthResp # NoHealth => healthResp.status = "healthy")
    /\ [](sample.status = 200 => model # "None")
    /\ [][healthResp' # healthResp =>
            /\ healthResp'.status = "healthy"
            /\ healthResp'.model_loaded = (model # "None")
            /\ sample.status = 200 => healthResp'.model_loaded
            /\ model' = model /\ lastResp' = lastResp]_vars

\* /health answered true after the request that loaded the model lazily
C4_Witness ==
    /\ healthResp = [status |-> "healthy", model_loaded |-> TRUE]
    /\ lastResp.status = 200
    /\ lastResp.steps = <<"load_model", "preprocess_image", "model.predict">>

\* what a POST /predict with body d leaves behind
C5_Outcome(d) ==
    LET pre  == preprocess_image(d)
        resp == lastResp'
    IN  /\ resp.status \in {200, 500}
        /\ resp.status = 500 => resp.detail # << >>
        /\ resp.status = 200 => resp.detail = << >>
        \* unloaded and the lazy load fails: 500, nothing else was run
        /\ (model = "None" /\ model' = "None") =>
              /\ resp.status = 500
              /\ resp.detail[1] = "Model not loaded: "
              /\ resp.steps = <<"load_model">>
        \* preprocessing raises: 500, no inference
        /\ (model' # "None" /\ pre.exc # "") =>
              /\ resp.status = 500
              /\ resp.detail = <<pre.exc>>
              /\ resp.steps[Len(resp.steps)] = "preprocess_image"
        \* otherwise inference runs, and the answer is 500 only if it raised
        /\ (model' # "None" /\ pre.exc = "") =>
              /\ resp.steps[Len(resp.steps)] = "model.predict"
              /\ resp.status = 500 => resp.detail = <<"inference error">>

\* C5: every POST /predict ends in a 200 result or a 500 with a detail
\* message, never anything else: 500 when the model is unloaded and the lazy
\* load fails (then neither preprocessing nor inference is run), or when
\* preprocessing (malformed base64, undecodable image) or inference raises;
\* 200 otherwise.
C5_PredictOutcomes ==
    /\ [](lastResp.status \in {0, 200, 500})
    /\ [][\A d \in Requests : predict(d) => C5_Outcome(d)]_vars

\* a request turned away because the lazy load failed
C5_Witness ==
    /\ lastResp.status = 500
    /\ lastResp.steps = <<"load_model">>
    /\ model = "None"

Count(steps, name) == Cardinality({i \in DOMAIN steps : steps[i] = name})

\* what a POST /predict with body d does to the model handle
C6_Request(d) ==
    LET pre  == preprocess_image(d)
        resp == lastResp'
    IN  \* one load attempt exactly when the model is unloaded at the request
        /\ Count(resp.steps, "load_model") = (IF model = "None" THEN 1 ELSE 0)
        /\ model = "None" => resp.steps[1] = "load_model"
        \* a failed attempt leaves it unloaded, and ends the request
        /\ (model = "None" /\ resp.steps = <<"load_model">>) =>
              model' = "None" /\ resp.status = 500
        \* a successful attempt: loaded, and the same request goes on to
        \* preprocessing and, when that returns, to inference
        /\ (model = "None" /\ model' # "None") =>
              /\ model' = "Loaded"
              /\ resp.steps[2] = "preprocess_image"
              /\ pre.exc = "" => resp.steps = <<"load_model", "preprocess_image",
                                                "model.predict">>

\* C6: the model handle is unloaded or loaded; a load is attempted at startup
\* and then by a /predict request exactly when the model is unloaded at that
\* request, at most once per request; a failed attempt leaves it unloaded
\* (the service still starts and serves); a successful one makes it loaded
\* and the same request goes on to inference; once loaded it is never
\* reloaded, reassigned or reset.
C6_ModelHandle ==
    /\ [](model \in {"None", "Loaded"})
    /\ [][pc = "booting" => pc' = "serving" /\ lastResp' = lastResp]_vars
    /\ [][model # "None" => model' = model]_vars
    /\ [][model' # model =>
            \/ pc = "booting"
            \/ Count(lastResp'.steps, "load_model") = 1]_vars
    /\ [][\A d \in Requests : predict(d) => C6_Request(d)]_vars

\* the startup load failed and a later request loaded the model and was served
C6_Witness ==
    /\ model = "Loaded"
    /\ lastResp.status = 200
    /\ lastResp.steps = <<"load_model", "preprocess_image", "model.predict">>
    /\ healthResp = [status |-> "healthy", model_loaded |-> FALSE]

\* C7: prediction, severity and recommendations of a /predict response depend
\* on the probability alone: two 200 responses anywhere in a run (also after
\* failed requests or a lazy load) with the same probability carry the same
\* prediction, severity and recommendations.
C7_SameProbabilitySameAnswer ==
    (sample.status = 200 /\ lastResp.status = 200 /\ sample.num = lastResp.num) =>
        /\ sample.prediction = lastResp.prediction
        /\ sample.severity = lastResp.severity
        /\ sample.recommendations = lastResp.recommendations
        /\ sample.infiltrates = lastResp.infiltrates
        /\ sample.consolidation = lastResp.consolidation
        /\ sample.lungOpacity = lastResp.lungOpacity

\* the same probability answered by the lazily loading request and by a later one
C7_Witness ==
    /\ sample.status = 200 /\ lastResp.status = 200
    /\ sample.num = lastResp.num
    /\ sample.steps[1] = "load_model"
    /\ lastResp.steps[1] = "preprocess_image"
    /\ lastResp.severity = "Moderate"

\* C8: every run of the command-line script prints exactly one JSON object
\* and terminates: the result (probability, and prediction true iff
\* probability > 0.5) with exit code 0 when loading the model, loading the
\* input and scoring all succeed, an object with an error field with exit
\* code 1 when one of them raises; the exit code is 0 iff the result was
\* printed, and the successful exit does not end up in the error path.
C8_Exited ==
    LET allOk == cli.modelFile = "ok" /\ cli.inputFile = "ok" /\ cli.scoring = "ok"
    IN  /\ Len(cli.stdout) <= 1
        /\ cli.at = "exited" =>
              /\ Len(cli.stdout) = 1
              /\ cli.exitcode \in {0, 1}
              /\ cli.exitcode = 0 <=> cli.stdout[1].kind = "result"
              /\ cli.exitcode = 0 <=> allOk
              /\ allOk => /\ cli.stdout[1].probability = cli.p
                          /\ cli.stdout[1].prediction = AboveHalf(cli.p)
              /\ ~allOk => /\ cli.stdout[1].kind = "error"
                           /\ cli.exitcode = 1

C8_CliRun == []C8_Exited /\ <>(cli.at = "exited")

\* a run that printed a positive result and left with exit code 0
C8_Witness ==
    /\ cli.at = "exited" /\ cli.exitcode = 0
    /\ Len(cli.stdout) = 1 /\ cli.stdout[1].prediction

\* the order of the steps of preprocess_image
StepOrder ==
    <<"strip_prefix", "b64decode", "open", "convert", "resize", "divide",
      "expand_dims">>

StepIndex(name) == CHOOSE i \in DOMAIN StepOrder : StepOrder[i] = name

\* base64 of an image, bare or behind a data-URL header ending in "base64,"
ValidImageData(d) ==
    \/ Len(d) = 1 /\ d[1].kind = "image"
    \/ Len(d) = 2 /\ d[1].kind = "header" /\ d[2].kind = "image"

\* C9: preprocess_image runs strip-prefix, base64-decode, image-decode,
\* convert to RGB if the mode is not RGB, resize to 224x224, divide by 255.0,
\* prepend the batch dimension, in that order; for every valid base64 image
\* of any resolution and colour mode, with or without a data-URL prefix
\* ending in "base64,", the result has shape (1,224,224,3) and every value
\* in [0,1].
C9_Preprocess ==
    (fn.name = "preprocess_image" /\ fn.done) =>
        LET d   == fn.image_data
            ret == fn.ret_array
            img == d[Len(d)]
        IN  /\ \A i, j \in DOMAIN ret.steps :
                  i < j => StepIndex(ret.steps[i]) < StepIndex(ret.steps[j])
            /\ ValidImageData(d) =>
                  /\ ret.exc = ""
                  /\ ret.steps = IF img.mode = "RGB"
                                 THEN <<"strip_prefix", "b64decode", "open",
                                        "resize", "divide", "expand_dims">>
                                 ELSE StepOrder
                  /\ ret.array.shape = <<1, 224, 224, 3>>
                  /\ 0 <= ret.array.lo /\ ret.array.lo <= ret.array.hi
                  /\ ret.array.hi <= ret.array.den

\* a small greyscale image behind a data-URL header
C9_Witness ==
    /\ fn.name = "preprocess_image" /\ fn.done
    /\ Len(fn.image_data) = 2 /\ fn.image_data[1].kind = "header"
    /\ fn.image_data[2].kind = "image" /\ fn.image_data[2].mode = "L"
    /\ fn.image_data[2].w = 1 /\ fn.image_data[2].h = 2
    /\ fn.ret_array.array.shape = <<1, 224, 224, 3>>

\* C10: in every 200 response of /predict, details.severity is None iff
\* prediction is "Normal" iff recommendations is the 4-item normal-monitoring
\* list; so /predict reaches the schedule-evaluation branch of
\* get_recommendations only with severity "Mild", never with severity None
\* and probability > 0.5.
C10_OutputsAgree ==
    \A r \in {lastResp, sample} :
        r.status = 200 =>
            /\ r.severity = "None" <=> r.prediction = "Normal"
            /\ r.prediction = "Normal" <=>
                  r.recommendations = << "Continue normal health monitoring",
                                         "Maintain good respiratory hygiene",
                                         "Stay current with vaccinations",
                                         "Follow up if new symptoms develop" >>
            /\ r.recommendations[1] = "Schedule medical evaluation" =>
                  r.severity = "Mild"
            /\ ~(r.severity = "None" /\ AboveHalf(r.num))

\* a response just above 0.5: "Mild", with the schedule-evaluation list
C10_Witness ==
    /\ lastResp.status = 200
    /\ 20 * lastResp.num = 11 * Den
    /\ lastResp.severity = "Mild"
    /\ lastResp.recommendations[1] = "Schedule medical evaluation"

====
